---- MODULE Spec2Model ----
EXTENDS Integers, Sequences, FiniteSets, TLC

(***************************************************************************)
(* A pipeline built by TransformBuilder: an identity TransformStream       *)
(* followed by one TransformStream per chained operator, each piped into   *)
(* the next with pipeThrough.  A producer writes to the first writable     *)
(* side, a consumer reads from the last readable side.                     *)
(***************************************************************************)

\* ---- bounds of the model ----
MaxInput == 2
MaxVal == 1
MaxCb == 2
MaxLen == 4

\* ---- constants of the stream runtime ----
\* default high-water mark of the writable side of a TransformStream
WritableHWM == 1

Vals == 0 .. MaxVal
Null == -1
NoError == 0
TypeErr == -1
FlushMark == -2

\* ---- the user functions handed to the operators ----
MapFn(c) == (c + 1) % (MaxVal + 1)
PredFn(c) == c # 0
ScanFn(a, c) == (a + c) % (MaxVal + 1)
AsyncFn(c) == (c + 1) % (MaxVal + 1)
HandlerFn(c) == IF c = 0 THEN Null ELSE 0
\* stateful(initialState, transform, {onFlush}): a leftover buffer of one chunk
InitialState == 0
StTransform(state, c) == <<c, state>>
OnFlushFn(state) == IF state = 0 THEN Null ELSE state

FnKinds == {"map", "tap", "filter", "scan", "mapAsync", "stateful"}

\* the operator chains that are built (the identity stage is added in front)
Chains ==
  { <<"map", "filter", "scan">>,
    <<"tap", "stateful">>,
    <<"mapAsync", "map">>,
    <<"map", "catchError">>,
    <<"stateful", "trackErrors">>,
    <<"collect", "trackDone">>,
    <<"trackDone", "stateful">> }

VARIABLES
  stages,         \* kind of every TransformStream of the pipeline, in order
  failStage,      \* the stage whose user function fails (0: none)
  failOn,         \* the chunk it fails on, or FlushMark for its onFlush
  st,             \* the TransformStream of every stage
  input,          \* chunks written to the input end so far
  inputClosed,    \* the producer closed the input end
  out,            \* chunks the consumer has read from the output end
  state,          \* TransformState: chunks, error, done
  doneCallbacks,  \* TransformBuilder.doneCallbacks
  errorCallbacks, \* TransformBuilder.errorCallbacks
  doneLog,        \* invocations of done callbacks: <<callback, done flag seen>>
  errLog,         \* invocations of error callbacks: <<callback, error>>
  handlerCalls,   \* invocations of the catchError handler
  failed,         \* the stage whose user function has failed (0: none)
  regAtClose,     \* done callbacks registered when the input end was closed
  emittedAtDone,  \* chunks emitted at the output end when trackDone flushed
  handleWritable, \* the stage whose writable side is the input end of the handle
  rejected,       \* writes and closes of the input end rejected with a TypeError
  \* TransformBuilder objects in the hands of a caller
  builders,       \* the Builder objects created so far: composable and state
  lastCall,       \* the last operator call: receiver, returned object, operator
  lastBuilt,      \* the last handle built: its builder, surface and stages
  \* linesTransform driven chunk by chunk
  text,           \* the whole input string
  separator,      \* options.separator
  trim,           \* options.trim
  skipEmpty,      \* options.skipEmpty
  pos,            \* characters of text fed so far
  cuts,           \* the chunk boundaries used so far
  buffer,         \* state.buffer of the splitting stage
  lines,          \* lines emitted so far, per chunk and at flush
  phase,          \* "open" until the flush, then "flushed"
  given,          \* the names of the options the caller passed
  emissions,      \* the chunks enqueued at the output end, one entry each
  \* jsonLinesTransform driven chunk by chunk, on the variables above and
  skipInvalid,    \* options.skipInvalid
  attempts,       \* the lines JSON.parse was called on, in order
  raised          \* parse failures thrown out of the map stage

linesVars == <<text, separator, trim, skipEmpty, pos, cuts, buffer, lines, phase,
               given, emissions>>

codecVars == <<handleWritable, rejected>>

builderVars == <<builders, lastCall, lastBuilt>>

pipeVars == <<stages, failStage, failOn, st, input, inputClosed, out, state,
              doneCallbacks, errorCallbacks, doneLog, errLog, handlerCalls,
              failed, regAtClose, emittedAtDone, codecVars, builderVars>>

jsonVars == <<skipInvalid, attempts, raised>>

\* what a run of the pipeline leaves alone
otherVars == <<linesVars, jsonVars, codecVars, builderVars>>

vars == <<pipeVars, linesVars, jsonVars>>

N == Len(stages)
Stages == 1 .. N
Kind(s) == stages[s]

\* new TransformStream(...) and the closure variables of the operator;
\* calls counts the calls of the user function that have not settled yet
NewStream ==
  [ wq |-> <<>>, wclosing |-> FALSE, wstate |-> "writable", busy |-> FALSE,
    rq |-> <<>>, rstate |-> "readable", pull |-> FALSE,
    acc |-> InitialState, flushCount |-> 0, calls |-> 0,
    processed |-> <<>>, emitted |-> <<>> ]

\* createState()
createState == [chunks |-> <<>>, error |-> NoError, done |-> FALSE]

\* linesTransform not in use
LinesIdle ==
  /\ text = <<>>
  /\ separator = <<>>
  /\ trim = FALSE
  /\ skipEmpty = FALSE
  /\ pos = 0
  /\ cuts = {}
  /\ buffer = <<>>
  /\ lines = <<>>
  /\ phase = "idle"
  /\ given = {}
  /\ emissions = <<>>

\* no call on a Builder object is being followed
NoCall == [receiver |-> 0, returned |-> 0, op |-> "none", before |-> <<>>,
           surface |-> 0]
NoHandle == [of |-> 0, state |-> 0, stages |-> <<>>]
BuilderIdle ==
  /\ builders = <<>>
  /\ lastCall = NoCall
  /\ lastBuilt = NoHandle

\* jsonLinesTransform not in use
JsonIdle ==
  /\ skipInvalid = FALSE
  /\ attempts = <<>>
  /\ raised = 0

PipeInit ==
  /\ \E ch \in Chains : stages = <<"identity">> \o ch
  /\ \E fs \in 0 .. N :
       /\ failStage = fs
       /\ fs # 0 => Kind(fs) \in FnKinds
       /\ \E v \in Vals \cup {FlushMark} :
            /\ failOn = v
            /\ fs = 0 => v = 0
            /\ v = FlushMark => (fs # 0 /\ Kind(fs) = "stateful")
  /\ st = [s \in Stages |-> NewStream]
  /\ input = <<>>
  /\ inputClosed = FALSE
  /\ out = <<>>
  /\ state = createState
  /\ doneCallbacks = <<>>
  /\ errorCallbacks = <<>>
  /\ doneLog = <<>>
  /\ errLog = <<>>
  /\ handlerCalls = 0
  /\ failed = 0
  /\ regAtClose = 0
  /\ emittedAtDone = -1
  /\ handleWritable = 1
  /\ rejected = 0
  /\ BuilderIdle

Init == PipeInit /\ LinesIdle /\ JsonIdle


\* ---- the stream runtime, as the operators use it ----

\* whether the user function of stage s fails on chunk c
Throws(s, c) == failStage = s /\ failOn = c

\* controller.enqueue succeeds only while the readable side is readable
CanEnqueue(r) == r.rstate = "readable"

\* the chunk is put in front of the chunks already queued
EnqFront(r, c) ==
  [r EXCEPT !.rq = <<c>> \o @, !.emitted = Append(@, c), !.pull = FALSE]

\* controller.enqueue(c) on a readable side that accepts it
Enq(r, c) ==
  [r EXCEPT !.rq = Append(@, c), !.emitted = Append(@, c), !.pull = FALSE]

\* controller.error(e): the readable side is errored and its queue reset,
\* the writable side is errored and rejects the writes it still holds
CtlError(r) ==
  [r EXCEPT !.rstate = IF @ = "readable" THEN "errored" ELSE @,
            !.rq = IF r.rstate = "readable" THEN <<>> ELSE @,
            !.wstate = IF @ \in {"writable", "erroring"} THEN "errored" ELSE @,
            !.wq = <<>>,
            !.busy = FALSE,
            !.pull = FALSE]

\* ---- the transform callbacks of the interpreter, one per operator ----

IdentityStep(r, c) == IF CanEnqueue(r) THEN Enq(r, c) ELSE CtlError(r)

\* the catch block swallows the failure instead of erroring the stream
MapStepSwallow(r, s, c) ==
  IF ~Throws(s, c) /\ CanEnqueue(r) THEN Enq(r, MapFn(c)) ELSE r

MapStep(r, s, c) ==
  IF ~Throws(s, c) /\ CanEnqueue(r) THEN Enq(r, MapFn(c)) ELSE CtlError(r)

\* f runs on the chunk but the chunk is not passed on
TapStepKeeps(r, s, c) ==
  IF ~Throws(s, c) /\ CanEnqueue(r) THEN r ELSE CtlError(r)

TapStep(r, s, c) ==
  IF ~Throws(s, c) /\ CanEnqueue(r) THEN Enq(r, c) ELSE CtlError(r)

\* the new accumulator is emitted but not retained
ScanStepForgets(r, s, c) ==
  IF Throws(s, c) THEN CtlError(r)
  ELSE IF CanEnqueue(r) THEN Enq(r, ScanFn(r.acc, c)) ELSE CtlError(r)

ScanStep(r, s, c) ==
  IF Throws(s, c) THEN CtlError(r)
  ELSE LET a == ScanFn(r.acc, c)
           r1 == [r EXCEPT !.acc = a]
       IN IF CanEnqueue(r1) THEN Enq(r1, a) ELSE CtlError(r1)

FilterStep(r, s, c) ==
  IF Throws(s, c) THEN CtlError(r)
  ELSE IF ~PredFn(c) THEN r
  ELSE IF CanEnqueue(r) THEN Enq(r, c) ELSE CtlError(r)

\* the handler runs only when controller.enqueue(chunk) itself throws; the
\* replacement is then enqueued on the same controller, which throws again
CatchErrorCaught(r) == ~CanEnqueue(r)
CatchErrorStep(r, c) ==
  IF ~CatchErrorCaught(r) THEN Enq(r, c)
  ELSE IF HandlerFn(c) # Null THEN CtlError(r) ELSE r

\* the new state is stored although the transform failed on the chunk
StatefulStepClobbers(r, s, c) ==
  IF Throws(s, c) THEN CtlError([r EXCEPT !.acc = c])
  ELSE LET res == StTransform(r.acc, c)
           r1 == [r EXCEPT !.acc = res[1]]
       IN IF CanEnqueue(r1) THEN Enq(r1, res[2]) ELSE CtlError(r1)

StatefulStep(r, s, c) ==
  IF Throws(s, c) THEN CtlError(r)
  ELSE LET res == StTransform(r.acc, c)
           r1 == [r EXCEPT !.acc = res[1]]
       IN IF CanEnqueue(r1) THEN Enq(r1, res[2]) ELSE CtlError(r1)

\* the catch block of flush swallows the failure of onFlush
StatefulFlushSwallow(r, s) ==
  IF Throws(s, FlushMark) THEN r
  ELSE LET final == OnFlushFn(r.acc)
       IN IF final = Null THEN r
          ELSE IF CanEnqueue(r) THEN Enq(r, final) ELSE CtlError(r)

\* flush(controller) of a stateful stage with an onFlush hook
StatefulFlush(r, s) ==
  IF Throws(s, FlushMark) THEN CtlError(r)
  ELSE LET final == OnFlushFn(r.acc)
       IN IF final = Null THEN r
          ELSE IF CanEnqueue(r) THEN Enq(r, final) ELSE CtlError(r)

\* ---- the transform callbacks of the builder ----

TrackDoneStep(r, c) == IF CanEnqueue(r) THEN Enq(r, c) ELSE CtlError(r)

TrackErrorsCaught(r) == ~CanEnqueue(r)
TrackErrorsStep(r, c) == IF ~TrackErrorsCaught(r) THEN Enq(r, c) ELSE CtlError(r)

\* the chunk is pushed twice
CollectPushTwice(h, c) == Append(Append(h, c), c)

\* collect(): this.state.chunks.push(chunk)
CollectPush(h, c) == Append(h, c)

\* the transform callback of stage s applied to chunk c (synchronous kinds)
Step(r, s, c) ==
  CASE Kind(s) = "identity"    -> IdentityStep(r, c)
    [] Kind(s) = "map"         -> MapStep(r, s, c)
    [] Kind(s) = "tap"         -> TapStep(r, s, c)
    [] Kind(s) = "collect"     -> TapStep(r, s, c)
    [] Kind(s) = "scan"        -> ScanStep(r, s, c)
    [] Kind(s) = "filter"      -> FilterStep(r, s, c)
    [] Kind(s) = "catchError"  -> CatchErrorStep(r, c)
    [] Kind(s) = "stateful"    -> StatefulStep(r, s, c)
    [] Kind(s) = "trackDone"   -> TrackDoneStep(r, c)
    [] Kind(s) = "trackErrors" -> TrackErrorsStep(r, c)

\* ---- the producer ----

\* writer.write(v) on the input end
Write(v) ==
  /\ st[1].wstate = "writable"
  /\ ~st[1].wclosing
  /\ Len(input) < MaxInput
  /\ st' = [st EXCEPT ![1].wq = Append(@, v)]
  /\ input' = Append(input, v)
  /\ UNCHANGED <<otherVars, stages, failStage, failOn, inputClosed, out, state,
                 doneCallbacks, errorCallbacks, doneLog, errLog, handlerCalls,
                 failed, regAtClose, emittedAtDone>>

\* writer.close() on the input end
CloseInput ==
  /\ st[1].wstate = "writable"
  /\ ~st[1].wclosing
  /\ st' = [st EXCEPT ![1].wclosing = TRUE]
  /\ inputClosed' = TRUE
  /\ regAtClose' = Len(doneCallbacks)
  /\ UNCHANGED <<otherVars, stages, failStage, failOn, input, out, state,
                 doneCallbacks, errorCallbacks, doneLog, errLog, handlerCalls,
                 failed, emittedAtDone>>

\* ---- registration on the built handle ----

\* onDone(callback); callers register done callbacks on handles built with
\* trackDone()
OnDone ==
  /\ \E s \in Stages : Kind(s) = "trackDone"
  /\ Len(doneCallbacks) < MaxCb
  /\ doneCallbacks' = Append(doneCallbacks, Len(doneCallbacks) + 1)
  /\ UNCHANGED <<otherVars, stages, failStage, failOn, st, input, inputClosed, out, state,
                 errorCallbacks, doneLog, errLog, handlerCalls,
                 failed, regAtClose, emittedAtDone>>

\* onError(callback); callers register error callbacks on handles built
\* with trackErrors()
OnError ==
  /\ \E s \in Stages : Kind(s) = "trackErrors"
  /\ Len(errorCallbacks) < MaxCb
  /\ errorCallbacks' = Append(errorCallbacks, Len(errorCallbacks) + 1)
  /\ UNCHANGED <<otherVars, stages, failStage, failOn, st, input, inputClosed, out, state,
                 doneCallbacks, doneLog, errLog, handlerCalls,
                 failed, regAtClose, emittedAtDone>>


\* ---- the stages ----

\* the sink write of stage s: its transform callback runs on the oldest
\* queued chunk once the readable side has been pulled (no backpressure)
Transform(s) ==
  /\ Kind(s) # "mapAsync"
  /\ st[s].wstate = "writable"
  /\ st[s].wq # <<>>
  /\ st[s].pull
  /\ LET c == Head(st[s].wq)
         r0 == [st[s] EXCEPT !.wq = Tail(@), !.processed = Append(@, c)]
         caughtT == Kind(s) = "trackErrors" /\ TrackErrorsCaught(r0)
         caughtC == Kind(s) = "catchError" /\ CatchErrorCaught(r0)
     IN /\ st' = [st EXCEPT ![s] = Step(r0, s, c)]
        /\ state' = IF Kind(s) = "collect"
                      THEN [state EXCEPT !.chunks = CollectPush(@, c)]
                    ELSE IF caughtT THEN [state EXCEPT !.error = TypeErr]
                    ELSE state
        /\ errLog' = IF caughtT
                       THEN errLog \o [i \in 1 .. Len(errorCallbacks) |->
                                         <<errorCallbacks[i], TypeErr>>]
                       ELSE errLog
        /\ handlerCalls' = IF caughtC THEN handlerCalls + 1 ELSE handlerCalls
        /\ failed' = IF Throws(s, c) THEN s ELSE failed
  /\ UNCHANGED <<otherVars, stages, failStage, failOn, input, inputClosed, out,
                 doneCallbacks, errorCallbacks, doneLog, regAtClose,
                 emittedAtDone>>

\* the sink starts a write without waiting for the one in flight
AsyncIdleAlways(r) == TRUE

\* the transform callback is async: the sink starts the next write only
\* when the promise of the previous one has settled
AsyncIdle(r) == ~r.busy

\* mapAsync: the transform callback calls f(chunk) and suspends on the await
StartAsync(s) ==
  /\ Kind(s) = "mapAsync"
  /\ st[s].wstate = "writable"
  /\ st[s].wq # <<>>
  /\ st[s].pull
  /\ AsyncIdle(st[s])
  /\ st' = [st EXCEPT ![s].busy = TRUE,
                      ![s].calls = @ + 1,
                      ![s].processed = Append(@, Head(st[s].wq))]
  /\ UNCHANGED <<otherVars, stages, failStage, failOn, input, inputClosed, out, state,
                 doneCallbacks, errorCallbacks, doneLog, errLog, handlerCalls,
                 failed, regAtClose, emittedAtDone>>

\* mapAsync: the promise settles and the callback resumes; a writable side
\* that was aborted meanwhile finishes erroring once this write is over
ResolveAsync(s) ==
  /\ st[s].busy
  /\ LET c == Head(st[s].wq)
         r0 == [st[s] EXCEPT !.wq = Tail(@), !.busy = FALSE, !.calls = @ - 1]
         r1 == IF ~Throws(s, c) /\ CanEnqueue(r0)
                 THEN Enq(r0, AsyncFn(c)) ELSE CtlError(r0)
     IN /\ st' = [st EXCEPT ![s] =
                    IF st[s].wstate = "erroring" THEN CtlError(r1) ELSE r1]
        /\ failed' = IF Throws(s, c) THEN s ELSE failed
  /\ UNCHANGED <<otherVars, stages, failStage, failOn, input, inputClosed, out, state,
                 doneCallbacks, errorCallbacks, doneLog, errLog, handlerCalls,
                 regAtClose, emittedAtDone>>

\* the close is processed while written chunks are still waiting
FlushReadyEarly(r) ==
  r.wstate = "writable" /\ r.wclosing /\ ~r.busy

\* the close of the writable side may be processed
FlushReady(r) ==
  r.wstate = "writable" /\ r.wclosing /\ r.wq = <<>> /\ ~r.busy

\* the flag is left as it was
TrackDoneFlagKept(d) == d
\* the callbacks run last to first
TrackDoneCallsReversed(cbs, d) ==
  [i \in 1 .. Len(cbs) |-> <<cbs[Len(cbs) + 1 - i], d>>]

\* flush of the trackDone stage: the flag, then the callbacks in order
TrackDoneFlag(d) == TRUE
TrackDoneCalls(cbs, d) == [i \in 1 .. Len(cbs) |-> <<cbs[i], d>>]

\* the sink close of stage s: flush runs, then the readable side closes
Flush(s) ==
  /\ FlushReady(st[s])
  /\ LET r1 == IF Kind(s) = "stateful" THEN StatefulFlush(st[s], s) ELSE st[s]
         r2 == [r1 EXCEPT !.flushCount = @ + 1]
         r3 == IF r2.rstate = "readable"
                 THEN [r2 EXCEPT !.wstate = "closed", !.pull = FALSE,
                         !.rstate = IF r2.rq = <<>> THEN "closed" ELSE "closing"]
                 ELSE r2
     IN /\ st' = [st EXCEPT ![s] = r3]
        /\ failed' = IF Kind(s) = "stateful" /\ Throws(s, FlushMark)
                       THEN s ELSE failed
        /\ IF Kind(s) = "trackDone"
             THEN /\ state' = [state EXCEPT !.done = TrackDoneFlag(@)]
                  /\ doneLog' = doneLog \o TrackDoneCalls(doneCallbacks, state'.done)
                  /\ emittedAtDone' = Len(st[N].emitted)
             ELSE UNCHANGED <<state, doneLog, emittedAtDone>>
  /\ UNCHANGED <<otherVars, stages, failStage, failOn, input, inputClosed, out,
                 doneCallbacks, errorCallbacks, errLog, handlerCalls, regAtClose>>

\* ---- pipeThrough between neighbouring stages, and the consumer ----

\* the pipe writes whatever the queue of the writable side already holds
DestReadyAlways(r) == r.wstate = "writable" /\ ~r.wclosing

\* the writable side of r takes a chunk (desiredSize > 0, no close queued)
DestReady(r) ==
  r.wstate = "writable" /\ ~r.wclosing /\ Len(r.wq) < WritableHWM

CanPull(r) == r.rstate = "readable" /\ ~r.pull /\ r.rq = <<>>

\* the pipe reads from stage s when stage s+1 is ready: stage s is pulled
PipePull(s) ==
  /\ s < N
  /\ CanPull(st[s])
  /\ DestReady(st[s + 1])
  /\ st' = [st EXCEPT ![s].pull = TRUE]
  /\ UNCHANGED <<otherVars, stages, failStage, failOn, input, inputClosed, out, state,
                 doneCallbacks, errorCallbacks, doneLog, errLog, handlerCalls,
                 failed, regAtClose, emittedAtDone>>

\* the consumer reads from the output end while nothing is queued there
ConsumerPull ==
  /\ CanPull(st[N])
  /\ st' = [st EXCEPT ![N].pull = TRUE]
  /\ UNCHANGED <<otherVars, stages, failStage, failOn, input, inputClosed, out, state,
                 doneCallbacks, errorCallbacks, doneLog, errLog, handlerCalls,
                 failed, regAtClose, emittedAtDone>>

\* a closing readable side reports closed while chunks are still queued
DequeueClosesAtOnce(r) ==
  [r EXCEPT !.rq = Tail(@), !.rstate = IF @ = "closing" THEN "closed" ELSE @]

\* a chunk leaves the readable side of r
Dequeue(r) ==
  [r EXCEPT !.rq = Tail(@),
            !.rstate = IF @ = "closing" /\ Len(r.rq) = 1 THEN "closed" ELSE @]

CanRead(r) == r.rq # <<>> /\ r.rstate \in {"readable", "closing"}

\* the pipe moves the oldest chunk of stage s into stage s+1
PipeTo(s) ==
  /\ s < N
  /\ CanRead(st[s])
  /\ DestReady(st[s + 1])
  /\ st' = [st EXCEPT ![s] = Dequeue(@),
                      ![s + 1].wq = Append(@, Head(st[s].rq))]
  /\ UNCHANGED <<otherVars, stages, failStage, failOn, input, inputClosed, out, state,
                 doneCallbacks, errorCallbacks, doneLog, errLog, handlerCalls,
                 failed, regAtClose, emittedAtDone>>

\* the consumer takes the oldest chunk of the output end
ConsumerRead ==
  /\ CanRead(st[N])
  /\ st' = [st EXCEPT ![N] = Dequeue(@)]
  /\ out' = Append(out, Head(st[N].rq))
  /\ UNCHANGED <<otherVars, stages, failStage, failOn, input, inputClosed, state,
                 doneCallbacks, errorCallbacks, doneLog, errLog, handlerCalls,
                 failed, regAtClose, emittedAtDone>>

\* the pipe closes stage s+1 once stage s is closed
PipeClose(s) ==
  /\ s < N
  /\ st[s].rstate = "closed"
  /\ st[s + 1].wstate = "writable"
  /\ ~st[s + 1].wclosing
  /\ st' = [st EXCEPT ![s + 1].wclosing = TRUE]
  /\ UNCHANGED <<otherVars, stages, failStage, failOn, input, inputClosed, out, state,
                 doneCallbacks, errorCallbacks, doneLog, errLog, handlerCalls,
                 failed, regAtClose, emittedAtDone>>

\* writable.abort(e), which for a TransformStream errors both sides; a write
\* in flight (a suspended mapAsync call) is waited for
Abort(r) ==
  IF r.busy THEN [r EXCEPT !.wstate = "erroring"] ELSE CtlError(r)

\* the pipe aborts stage s+1 once stage s is errored
AbortForward(s) ==
  /\ s < N
  /\ st[s].rstate = "errored"
  /\ st[s + 1].wstate = "writable"
  /\ st' = [st EXCEPT ![s + 1] = Abort(@)]
  /\ UNCHANGED <<otherVars, stages, failStage, failOn, input, inputClosed, out, state,
                 doneCallbacks, errorCallbacks, doneLog, errLog, handlerCalls,
                 failed, regAtClose, emittedAtDone>>

\* readable.cancel(e), which for a TransformStream errors the writable side
Cancel(r) ==
  [r EXCEPT !.rstate = "cancelled", !.rq = <<>>, !.pull = FALSE,
            !.wstate = IF @ = "writable"
                         THEN (IF r.busy THEN "erroring" ELSE "errored")
                         ELSE @,
            !.wq = IF r.busy THEN <<Head(r.wq)>> ELSE <<>>]

\* the pipe cancels stage s once stage s+1 is errored
CancelBackward(s) ==
  /\ s < N
  /\ st[s + 1].wstate = "errored"
  /\ st[s].rstate \in {"readable", "closing"}
  /\ st' = [st EXCEPT ![s] = Cancel(@)]
  /\ UNCHANGED <<otherVars, stages, failStage, failOn, input, inputClosed, out, state,
                 doneCallbacks, errorCallbacks, doneLog, errLog, handlerCalls,
                 failed, regAtClose, emittedAtDone>>

Next ==
  \/ \E v \in Vals : Write(v)
  \/ CloseInput
  \/ OnDone
  \/ OnError
  \/ \E s \in Stages : Transform(s)
  \/ \E s \in Stages : StartAsync(s)
  \/ \E s \in Stages : ResolveAsync(s)
  \/ \E s \in Stages : Flush(s)
  \/ \E s \in Stages : PipePull(s)
  \/ ConsumerPull
  \/ \E s \in Stages : PipeTo(s)
  \/ ConsumerRead
  \/ \E s \in Stages : PipeClose(s)
  \/ \E s \in Stages : AbortForward(s)
  \/ \E s \in Stages : CancelBackward(s)

Spec == Init /\ [][Next]_vars

(***************************************************************************)
(* The declared semantics of the operators, applied to whole sequences.    *)
(***************************************************************************)

IsPrefix(a, b) == Len(a) <= Len(b) /\ SubSeq(b, 1, Len(a)) = a
Last(q) == q[Len(q)]
HasKind(k) == \E s \in Stages : Kind(s) = k
StageOf(k) == CHOOSE s \in Stages : Kind(s) = k
Completed == st[N].rstate = "closed"
Errored == st[N].rstate = "errored"

\* what one chunk c adds to the output of stage s holding accumulator a
EmitOf(s, a, c) ==
  CASE Kind(s) \in {"map", "mapAsync"} -> <<(c + 1) % (MaxVal + 1)>>
    [] Kind(s) = "filter"   -> IF c # 0 THEN <<c>> ELSE <<>>
    [] Kind(s) = "scan"     -> <<(a + c) % (MaxVal + 1)>>
    [] Kind(s) = "stateful" -> <<a>>
    [] OTHER                -> <<c>>

\* the accumulator stage s holds after chunk c
AccOf(s, a, c) ==
  CASE Kind(s) = "scan"     -> (a + c) % (MaxVal + 1)
    [] Kind(s) = "stateful" -> c
    [] OTHER                -> a

\* stage s applied to the chunks in[i..], halting at the chunk its function
\* fails on
RECURSIVE RunStage(_, _, _, _, _)
RunStage(s, in, i, a, o) ==
  IF i > Len(in) THEN [out |-> o, acc |-> a, halted |-> FALSE]
  ELSE IF Throws(s, in[i]) THEN [out |-> o, acc |-> a, halted |-> TRUE]
  ELSE RunStage(s, in, i + 1, AccOf(s, a, in[i]), o \o EmitOf(s, a, in[i]))

\* the chunks stage s emits for the input in, with its flush output when
\* the input has ended
StageSem(s, in, ended) ==
  LET r == RunStage(s, in, 1, 0, <<>>)
  IN IF /\ ended /\ ~r.halted /\ Kind(s) = "stateful"
        /\ ~Throws(s, FlushMark) /\ r.acc # 0
       THEN Append(r.out, r.acc)
       ELSE r.out

\* the chunks leaving stage k when the whole input in is fed and closed
RECURSIVE PipelineSem(_, _)
PipelineSem(k, in) ==
  IF k = 0 THEN in ELSE StageSem(k, PipelineSem(k - 1, in), TRUE)

\* the chunks whose transform call at stage s is over
Settled(s) ==
  IF st[s].busy THEN SubSeq(st[s].processed, 1, Len(st[s].processed) - 1)
  ELSE st[s].processed

\* what stage s has been handed: the input end, or its upstream neighbour
Upstream(s) == IF s = 1 THEN input ELSE st[s - 1].emitted

OrderKinds ==
  {"identity", "map", "tap", "filter", "scan", "mapAsync", "stateful"}

\* C1: in a pipeline of map, tap, filter, scan, mapAsync and stateful
\* stages every stage takes its chunks in the order its upstream emitted
\* them and emits exactly what its declared semantics gives for them, the
\* consumer reads them in that order, and on completion the output is the
\* declared semantics of the stages applied in construction order
C1_OrderPreservation ==
  (\A s \in Stages : Kind(s) \in OrderKinds) =>
    /\ \A s \in Stages :
         /\ IsPrefix(st[s].processed, Upstream(s))
         /\ st[s].emitted = StageSem(s, Settled(s), st[s].flushCount = 1)
    /\ IsPrefix(out, st[N].emitted)
    /\ Completed => out \o st[N].rq = PipelineSem(N, input)

C1_Witness ==
  /\ \A s \in Stages : Kind(s) \in OrderKinds
  /\ Completed
  /\ Len(input) = 2
  /\ Len(out) = 2
  /\ out[1] # out[2]

\* C2 as stated: whenever the input end was closed and the run is over, the
\* onFlush hook of every stateful stage has run exactly once
C2_FlushInEveryClosedRun ==
  (inputClosed /\ (Completed \/ Errored)) =>
    \A s \in Stages : Kind(s) = "stateful" => st[s].flushCount = 1

\* C2 amended: onFlush runs at most once; it runs exactly once in a run
\* that completes without failure; it runs only after end-of-input reached
\* the stage and every chunk handed to the stage has been transformed, and
\* before the stage reports closed; its non-null result is the last chunk
\* the stage emits
C2_FlushOnce ==
  \A s \in Stages : Kind(s) = "stateful" =>
    /\ st[s].flushCount <= 1
    /\ Completed => st[s].flushCount = 1
    /\ st[s].rstate \in {"closing", "closed"} => st[s].flushCount = 1
    /\ st[s].flushCount = 1 =>
         /\ inputClosed
         /\ st[s].wclosing
         /\ ~st[s].busy
         /\ st[s - 1].flushCount = 1
         /\ st[s].processed = st[s - 1].emitted
         /\ (failed # s /\ st[s].acc # 0) =>
              (st[s].emitted # <<>> /\ Last(st[s].emitted) = st[s].acc)
         /\ (failed # s /\ st[s].acc = 0) =>
              Len(st[s].emitted) = Len(st[s].processed)

C2_Witness ==
  /\ Completed
  /\ \E s \in Stages :
       /\ Kind(s) = "stateful"
       /\ st[s].flushCount = 1
       /\ Len(st[s].processed) = 2
       /\ Len(st[s].emitted) = 3

\* the failing chunk of a transform failure at stage s is the last it took
FailedInTransform(s) ==
  /\ failed = s
  /\ failOn # FlushMark

\* C4: when the function of a map, tap, filter or scan stage fails on a
\* chunk, the stage emits nothing for it, takes no later chunk, its
\* downstream neighbour only ever takes chunks emitted before the failure,
\* its writable side is errored and empty, and the output end is errored
\* or an error is on its way to it; the run never completes
C4_FailFast ==
  \A s \in Stages :
    (FailedInTransform(s) /\ Kind(s) \in {"map", "tap", "filter", "scan"}) =>
      /\ st[s].processed # <<>>
      /\ Last(st[s].processed) = failOn
      /\ \A i \in 1 .. Len(st[s].processed) - 1 : st[s].processed[i] # failOn
      /\ st[s].emitted =
           StageSem(s, SubSeq(st[s].processed, 1, Len(st[s].processed) - 1),
                    FALSE)
      /\ st[s].wstate = "errored"
      /\ st[s].wq = <<>>
      /\ st[s].rstate = "errored"
      /\ s < N => IsPrefix(st[s + 1].processed, st[s].emitted)
      /\ ~Completed
      /\ st[N].rstate # "closing"
      /\ \/ Errored
         \/ \E u \in s .. N - 1 :
              st[u].rstate = "errored" /\ st[u + 1].wstate = "writable"

C4_Witness ==
  /\ failed # 0
  /\ Kind(failed) = "map"
  /\ failOn # FlushMark
  /\ Errored
  /\ Len(st[failed].processed) = 2
  /\ Len(st[failed].emitted) = 1

\* C5 as stated: in map(f).catchError(handler), once f has failed and the
\* run is over, the handler has been invoked and the pipeline has not
\* halted: it completed
C5_CatchErrorRecovers ==
  (HasKind("catchError") /\ failed # 0 /\ (Completed \/ Errored)) =>
    (handlerCalls >= 1 /\ Completed)

\* C6 as stated: with trackErrors() last, once an upstream stage has failed
\* and the output end is errored, the last error is that error and every
\* registered error callback has been invoked once with it, in order
C6_ErrorTracked ==
  (Kind(N) = "trackErrors" /\ failed # 0 /\ Errored) =>
    /\ state.error = failed
    /\ errLog = [i \in 1 .. Len(errorCallbacks) |-> <<errorCallbacks[i], failed>>]

\* the done flag is false until the flush of the trackDone stage has
\* run and true from then on; it is true once the pipeline has completed;
\* once true it never becomes false
C7_DoneFlagState ==
  /\ HasKind("trackDone") =>
       /\ state.done <=> st[StageOf("trackDone")].flushCount = 1
       /\ Completed => state.done
  /\ ~HasKind("trackDone") => ~state.done

\* C7: the state predicate above holds in every state, and a done flag
\* that is true stays true in every step
C7_DoneFlag == []C7_DoneFlagState /\ [][state.done => state'.done]_vars

C7_Witness ==
  /\ state.done
  /\ Completed
  /\ inputClosed
  /\ Len(out) >= 1

\* C8: the done callbacks run inside the flush of the trackDone stage, in
\* registration order, each at most once, seeing the done flag already
\* true; when the pipeline has completed every callback registered before
\* the input end was closed has run
C8_DoneCallbacks ==
  /\ Len(doneLog) <= Len(doneCallbacks)
  /\ \A i \in 1 .. Len(doneLog) : doneLog[i] = <<doneCallbacks[i], TRUE>>
  /\ doneLog # <<>> =>
       (HasKind("trackDone") /\ st[StageOf("trackDone")].flushCount = 1)
  /\ (HasKind("trackDone") /\ Completed) => Len(doneLog) >= regAtClose

C8_Witness ==
  /\ Completed
  /\ regAtClose = 2
  /\ Len(doneLog) = 2

\* C9 as stated: once the done callbacks have fired, no further data chunk
\* is emitted at the output end of the pipeline
C9_DoneAfterLastEmission ==
  doneLog # <<>> => Len(st[N].emitted) = emittedAtDone

\* C10: the captured history is exactly the chunks that passed the collect
\* stage, in order and once each, also when the pipeline has completed;
\* without collect() it stays empty
C10_Collected ==
  /\ HasKind("collect") =>
       /\ state.chunks = st[StageOf("collect")].processed
       /\ state.chunks = st[StageOf("collect")].emitted
  /\ ~HasKind("collect") => state.chunks = <<>>

C10_Witness ==
  /\ HasKind("collect")
  /\ Completed
  /\ Len(state.chunks) = 2
  /\ state.chunks[1] # state.chunks[2]

\* C11: a mapAsync stage has at most one call of f unsettled; while a call
\* is unsettled the only chunk the stage holds is the one in flight, so it
\* has taken no other chunk from upstream; it takes its chunks in upstream
\* order and emits the results in that order, one per settled call; a
\* rejected call emits nothing and errors the stage, and the run never
\* completes
C11_SingleInFlight ==
  \A s \in Stages : Kind(s) = "mapAsync" =>
    /\ st[s].calls \in {0, 1}
    /\ st[s].calls = 1 <=> st[s].busy
    /\ st[s].calls = 1 =>
         /\ st[s].processed # <<>>
         /\ st[s].wq = <<Last(st[s].processed)>>
    /\ IsPrefix(st[s].processed \o (IF st[s].busy THEN <<>> ELSE st[s].wq),
                Upstream(s))
    /\ Len(st[s].emitted) <= Len(st[s].processed) - st[s].calls
    /\ \A i \in 1 .. Len(st[s].emitted) :
         st[s].emitted[i] = AsyncFn(st[s].processed[i])
    /\ (failed # s /\ st[s].rstate \in {"readable", "closing", "closed"}) =>
         Len(st[s].emitted) = Len(st[s].processed) - st[s].calls
    /\ failed = s =>
         /\ Len(st[s].emitted) < Len(st[s].processed)
         /\ st[s].wstate = "errored"
         /\ st[s].rstate \in {"errored", "cancelled"}
         /\ ~Completed

\* the second call is in flight after the first result was emitted
C11_Witness ==
  \E s \in Stages :
    /\ Kind(s) = "mapAsync"
    /\ st[s].calls = 1
    /\ Len(st[s].processed) = 2
    /\ Len(st[s].emitted) = 1
    /\ st[s].processed[1] # st[s].processed[2]

\* C12 as stated: a stage that has a downstream neighbour takes a chunk
\* from its upstream neighbour only in a state where the writable side of
\* that downstream neighbour has room for a chunk
C12_TakesOnlyWithCapacity ==
  [][\A s \in 2 .. N - 1 :
       Len(st'[s].wq) > Len(st[s].wq) => DestReady(st[s + 1])]_vars

\* no stage has two calls of its function unsettled; a stage fed by a pipe
\* holds at most one chunk on its writable side; a stage that has been
\* pulled has no output left on its readable side, and its downstream
\* neighbour, unless it has failed, has room for a chunk
C12_BackpressureState ==
  \A s \in Stages :
    /\ st[s].calls <= 1
    /\ s > 1 => Len(st[s].wq) <= WritableHWM
    /\ st[s].pull => (st[s].rq = <<>> /\ st[s].rstate = "readable")
    /\ (st[s].pull /\ s < N /\ st[s + 1].wstate = "writable") =>
         DestReady(st[s + 1])

\* C12 amended: the state predicate above holds in every state, and a
\* stage starts transforming a chunk only when it has been pulled and no
\* call of its function is unsettled
C12_Backpressure ==
  /\ []C12_BackpressureState
  /\ [][\A s \in Stages :
          Len(st'[s].processed) > Len(st[s].processed) =>
            (st[s].pull /\ st[s].calls = 0)]_vars

\* a stage holds a chunk it may not transform yet: it has not been pulled,
\* because the writable side of its downstream neighbour is full
C12_Witness ==
  \E s \in 2 .. N - 1 :
    /\ st[s].wstate = "writable"
    /\ st[s].wq # <<>>
    /\ ~st[s].pull
    /\ st[s].rq = <<>>
    /\ st[s + 1].wstate = "writable"
    /\ Len(st[s + 1].wq) = WritableHWM

\* C13: every stage is flushed at most once and the stages are flushed in
\* construction order: the first stage only after the input end was closed
\* and every written chunk transformed, stage s only after stage s-1 was
\* flushed and every chunk stage s-1 emitted, its flush output included,
\* has left stage s-1 and been transformed by stage s
C13_FlushOrder ==
  \A s \in Stages :
    /\ st[s].flushCount <= 1
    /\ st[s].flushCount = 1 =>
         /\ st[s].wq = <<>>
         /\ st[s].processed = Upstream(s)
         /\ s = 1 => inputClosed
         /\ s > 1 =>
              /\ st[s - 1].flushCount = 1
              /\ st[s - 1].rq = <<>>
              /\ st[s - 1].rstate = "closed"

\* every stage was flushed, and the flush output of a stateful stage was
\* transformed by the stages after it
C13_Witness ==
  /\ Completed
  /\ \A s \in Stages : st[s].flushCount = 1
  /\ \E s \in 2 .. N - 1 :
       /\ Kind(s) = "stateful"
       /\ Len(st[s].processed) = 2
       /\ Len(st[s].emitted) = 3
       /\ st[N].processed = st[s].emitted

\* f applied left to right over the first k chunks of in, from the initial
\* accumulator
RECURSIVE FoldLeft(_, _)
FoldLeft(in, k) ==
  IF k = 0 THEN InitialState ELSE ScanFn(FoldLeft(in, k - 1), in[k])

\* the chunks on which the call of the function of stage s returned
FoldedChunks(s) ==
  IF failed = s THEN SubSeq(st[s].processed, 1, Len(st[s].processed) - 1)
  ELSE Settled(s)

\* C21: a scan stage emits one chunk per chunk its function returned for,
\* the k-th being the left fold of f over the first k chunks from the
\* initial accumulator, and the accumulator it holds is the last chunk it
\* emitted (the initial accumulator before the first)
C21_ScanFold ==
  \A s \in Stages : Kind(s) = "scan" =>
    LET folded == FoldedChunks(s)
    IN /\ Len(st[s].emitted) = Len(folded)
       /\ \A k \in 1 .. Len(folded) : st[s].emitted[k] = FoldLeft(folded, k)
       /\ st[s].acc = IF st[s].emitted = <<>> THEN InitialState
                      ELSE Last(st[s].emitted)
       /\ st[s].acc = FoldLeft(folded, Len(folded))

\* the scan stage has folded two chunks and holds the second result
C21_Witness ==
  \E s \in Stages :
    /\ Kind(s) = "scan"
    /\ st[s].processed = <<1, 1>>
    /\ st[s].emitted = <<1, 0>>
    /\ st[s].acc = 0

\* C25 as stated: once a stage has failed, in a transform call or in its
\* flush, no stage after it is ever flushed, a trackDone stage after it has
\* not set the done flag, no done callback has been invoked, the failing
\* stage is flushed at most once, and the pipeline does not complete
C25_FailedRunNotDone ==
  failed # 0 =>
    /\ \A s \in Stages : s > failed => st[s].flushCount = 0
    /\ (HasKind("trackDone") /\ StageOf("trackDone") > failed) => ~state.done
    /\ doneLog = <<>>
    /\ st[failed].flushCount <= 1
    /\ ~Completed

\* the chunks on which the transform call of stage s completed
Transformed(s) ==
  IF failed = s /\ failOn # FlushMark
    THEN SubSeq(st[s].processed, 1, Len(st[s].processed) - 1)
    ELSE Settled(s)

\* a scan or stateful stage holds the state its function returned for the
\* last chunk it completed on, the initial state before the first
C26_HeldState ==
  \A s \in Stages : Kind(s) \in {"scan", "stateful"} =>
    st[s].acc = RunStage(s, Transformed(s), 1, InitialState, <<>>).acc

\* C26: the state predicate above holds in every state, failed stages
\* included; the held state changes only in a step in which the stage
\* transforms a chunk its function does not fail on, to the state returned
\* for that chunk; a step in which the stage is flushed leaves it as it was
C26_StateOnFailure ==
  /\ []C26_HeldState
  /\ [][\A s \in Stages :
          /\ st'[s].acc # st[s].acc =>
                /\ Kind(s) \in {"scan", "stateful"}
                /\ Len(st'[s].processed) = Len(st[s].processed) + 1
                /\ ~Throws(s, Last(st'[s].processed))
                /\ st'[s].acc = AccOf(s, st[s].acc, Last(st'[s].processed))
          /\ st'[s].flushCount # st[s].flushCount => st'[s].acc = st[s].acc
          /\ (failed' = s /\ failed # s) => st'[s].acc = st[s].acc]_vars

\* a stateful stage failed on its second chunk and holds the state its
\* transform returned for the first
C26_Witness ==
  \E s \in Stages :
    /\ Kind(s) = "stateful"
    /\ failed = s
    /\ failOn # FlushMark
    /\ Len(st[s].processed) = 2
    /\ st[s].acc = st[s].processed[1]
    /\ st[s].acc # InitialState

(***************************************************************************)
(* utf8Transform({ trackErrors: true, fatal: true }): the decoding stage   *)
(* followed by trackErrors().  The decoder is the platform's; a chunk it   *)
(* rejects is the chunk failOn, a truncated sequence at the end of the     *)
(* input is rejected by the final decode() of onFlush (FlushMark).         *)
(***************************************************************************)

Utf8Chain == <<"identity", "stateful", "trackErrors">>

InitUtf8 ==
  /\ stages = Utf8Chain
  /\ failStage \in {0, 2}
  /\ failOn \in Vals \cup {FlushMark}
  /\ failStage = 0 => failOn = 0
  /\ st = [s \in 1 .. 3 |-> NewStream]
  /\ input = <<>>
  /\ inputClosed = FALSE
  /\ out = <<>>
  /\ state = createState
  /\ doneCallbacks = <<>>
  /\ errorCallbacks = <<>>
  /\ doneLog = <<>>
  /\ errLog = <<>>
  /\ handlerCalls = 0
  /\ failed = 0
  /\ regAtClose = 0
  /\ emittedAtDone = -1
  /\ handleWritable = 1
  /\ rejected = 0
  /\ BuilderIdle
  /\ LinesIdle
  /\ JsonIdle

\* the steps the stream runtime takes on its own
RuntimeStep ==
  \E s \in Stages :
    \/ Transform(s)
    \/ Flush(s)
    \/ PipePull(s)
    \/ PipeTo(s)
    \/ PipeClose(s)
    \/ AbortForward(s)
    \/ CancelBackward(s)

\* the consumer keeps reading the output end
ConsumerStep == ConsumerPull \/ ConsumerRead

NextUtf8 ==
  \/ \E v \in Vals : Write(v)
  \/ CloseInput
  \/ OnError
  \/ RuntimeStep
  \/ ConsumerStep

\* the runtime runs every step that stays possible, and the output is consumed
SpecUtf8 ==
  /\ InitUtf8
  /\ [][NextUtf8]_vars
  /\ WF_vars(RuntimeStep)
  /\ WF_vars(ConsumerStep)

\* an invalid byte sequence was fed: a chunk the strict decoder rejects was
\* written, or the input ends inside a sequence
InvalidFed ==
  /\ failStage = 2
  /\ \/ failOn = FlushMark
     \/ \E i \in 1 .. Len(input) : input[i] = failOn

\* an error callback was invoked, or reading the output end fails
FailureObserved == errLog # <<>> \/ Errored

\* the output end never closes as a success once invalid bytes were fed,
\* and nothing is emitted for the rejected chunk
C20_NeverSilent ==
  InvalidFed =>
    /\ ~Completed
    /\ st[N].rstate # "closing"
    /\ IsPrefix(out, st[2].emitted)
    /\ FailedInTransform(2) =>
         /\ Last(st[2].processed) = failOn
         /\ Len(st[2].emitted) = Len(st[2].processed) - 1

\* C20: with the strict decoder and trackErrors(), a run fed an invalid
\* byte sequence never completes as a success, and once the input end is
\* closed it always reaches a state where an error callback was invoked or
\* reading the output end fails
C20_StrictDecodeObservable ==
  /\ []C20_NeverSilent
  /\ (InvalidFed /\ inputClosed) ~> FailureObserved

\* the decoder rejected the second chunk; the consumer had read the first
\* result and then found the output end errored, a callback being registered
C20_Witness ==
  /\ stages = Utf8Chain
  /\ InvalidFed
  /\ inputClosed
  /\ failed = 2
  /\ errorCallbacks # <<>>
  /\ Len(st[2].processed) = 2
  /\ Len(out) = 1
  /\ Errored


(***************************************************************************)
(* Pipelines with collect(): the captured history while chunks flow and    *)
(* after a stage before or after the collect stage has failed.             *)
(***************************************************************************)

\* the chains built: collect() right after a stage that may fail, two
\* stages after one, and two stages before one
CollectChains ==
  { <<"stateful", "collect">>,
    <<"map", "tap", "collect">>,
    <<"collect", "tap", "map">> }

InitCollect ==
  /\ \E ch \in CollectChains : stages = <<"identity">> \o ch
  /\ \E fs \in 0 .. N :
       /\ failStage = fs
       /\ fs # 0 => Kind(fs) \in FnKinds
       /\ \E v \in Vals \cup {FlushMark} :
            /\ failOn = v
            /\ fs = 0 => v = 0
            /\ v = FlushMark => (fs # 0 /\ Kind(fs) = "stateful")
  /\ st = [s \in Stages |-> NewStream]
  /\ input = <<>>
  /\ inputClosed = FALSE
  /\ out = <<>>
  /\ state = createState
  /\ doneCallbacks = <<>>
  /\ errorCallbacks = <<>>
  /\ doneLog = <<>>
  /\ errLog = <<>>
  /\ handlerCalls = 0
  /\ failed = 0
  /\ regAtClose = 0
  /\ emittedAtDone = -1
  /\ handleWritable = 1
  /\ rejected = 0
  /\ BuilderIdle
  /\ LinesIdle
  /\ JsonIdle

NextCollect ==
  \/ \E v \in Vals : Write(v)
  \/ CloseInput
  \/ RuntimeStep
  \/ ConsumerStep

SpecCollect == InitCollect /\ [][NextCollect]_vars

\* the chunks leaving stage k for the input in, with the flush output of
\* the stages when the input has ended
RECURSIVE UpstreamSem(_, _, _)
UpstreamSem(k, in, ended) ==
  IF k = 0 THEN in ELSE StageSem(k, UpstreamSem(k - 1, in, ended), ended)

\* the captured history is a prefix of what the stages before collect emit
\* for the input written so far, and it is the chunks the collect stage
\* has taken, which are the chunks it has emitted
C28_HistoryIsPrefix ==
  LET c == StageOf("collect")
  IN /\ IsPrefix(state.chunks, UpstreamSem(c - 1, input, inputClosed))
     /\ state.chunks = st[c].processed
     /\ state.chunks = st[c].emitted
     /\ IsPrefix(state.chunks, Upstream(c))

\* C28 as stated: the history is such a prefix in every state, and once the
\* pipeline has failed (its output end is errored) nothing is appended
C28_NoAppendAfterFailure ==
  /\ []C28_HistoryIsPrefix
  /\ [][Errored => state'.chunks = state.chunks]_vars

\* C28 amended: the history is such a prefix in every state; a step
\* changes it only by appending one chunk, the next one the stage before
\* collect emitted, and only while the collect stage itself has not been
\* reached by a failure
C28_CapturedHistory ==
  /\ []C28_HistoryIsPrefix
  /\ [][state'.chunks # state.chunks =>
          LET c == StageOf("collect")
          IN /\ st[c].wstate = "writable"
             /\ st[c].rstate = "readable"
             /\ Len(state'.chunks) = Len(state.chunks) + 1
             /\ IsPrefix(state.chunks, state'.chunks)
             /\ Last(state'.chunks) = st[c - 1].emitted[Len(state'.chunks)]]_vars

\* a stage two places before the collect stage has failed on its second
\* chunk; the first chunk, emitted before the failure, is still waiting at
\* the collect stage, which has been pulled and may capture it
C28_Witness ==
  /\ stages = <<"identity", "map", "tap", "collect">>
  /\ failed = 2
  /\ Len(st[2].processed) = 2
  /\ state.chunks = <<>>
  /\ st[4].wstate = "writable"
  /\ Len(st[4].wq) = 1
  /\ st[4].pull

(***************************************************************************)
(* compressTransform and decompressTransform: an identity stream piped     *)
(* through the codec, the codec piped into a second identity stream        *)
(* (compressedTransform), and a builder adopted on that second stream.     *)
(***************************************************************************)

CodecStage == 2

\* the stages chained on the adopted stream, in the order the options add them
Tracking(collectChunks, trackDone, trackErrors) ==
  (IF collectChunks THEN <<"collect">> ELSE <<>>)
    \o (IF trackDone THEN <<"trackDone">> ELSE <<>>)
    \o (IF trackErrors THEN <<"trackErrors">> ELSE <<>>)

\* pipeTo and pipeThrough acquire the writer of their destination: the
\* writable side of every stage fed by a pipe is locked
WritableLocked(s) == s > 1

InitCodec ==
  /\ \E c \in BOOLEAN, d \in BOOLEAN, e \in BOOLEAN :
       stages = <<"identity", "codec", "identity">> \o Tracking(c, d, e)
  /\ failStage = 0
  /\ failOn = 0
  /\ st = [s \in Stages |-> NewStream]
  /\ input = <<>>
  /\ inputClosed = FALSE
  /\ out = <<>>
  /\ state = createState
  /\ doneCallbacks = <<>>
  /\ errorCallbacks = <<>>
  /\ doneLog = <<>>
  /\ errLog = <<>>
  /\ handlerCalls = 0
  /\ failed = 0
  /\ regAtClose = 0
  /\ emittedAtDone = -1
  /\ handleWritable = CodecStage + 1
  /\ rejected = 0
  /\ BuilderIdle
  /\ LinesIdle
  /\ JsonIdle

\* getWriter().write(v), or a pipe, on the input end of the handle
HandleWrite(v) ==
  /\ Len(input) < MaxInput
  /\ ~inputClosed
  /\ input' = Append(input, v)
  /\ IF WritableLocked(handleWritable)
       THEN /\ rejected' = rejected + 1
            /\ UNCHANGED st
       ELSE /\ st' = [st EXCEPT ![handleWritable].wq = Append(@, v)]
            /\ UNCHANGED rejected
  /\ UNCHANGED <<linesVars, jsonVars, stages, failStage, failOn, inputClosed,
                 out, state, doneCallbacks, errorCallbacks, doneLog, errLog,
                 handlerCalls, failed, regAtClose, emittedAtDone,
                 handleWritable, builderVars>>

\* close() on the input end of the handle
HandleClose ==
  /\ ~inputClosed
  /\ inputClosed' = TRUE
  /\ regAtClose' = Len(doneCallbacks)
  /\ IF WritableLocked(handleWritable)
       THEN /\ rejected' = rejected + 1
            /\ UNCHANGED st
       ELSE /\ st' = [st EXCEPT ![handleWritable].wclosing = TRUE]
            /\ UNCHANGED rejected
  /\ UNCHANGED <<linesVars, jsonVars, stages, failStage, failOn, input, out,
                 state, doneCallbacks, errorCallbacks, doneLog, errLog,
                 handlerCalls, failed, emittedAtDone, handleWritable,
                 builderVars>>

\* the first identity stream is local to compressTransform and never
\* written, so no chunk is ever queued anywhere: the only steps of the
\* runtime are the reads the pipes and the consumer have pending
NextCodec ==
  \/ \E v \in Vals : HandleWrite(v)
  \/ HandleClose
  \/ OnDone
  \/ OnError
  \/ \E s \in Stages : PipePull(s)
  \/ ConsumerPull

SpecCodec == InitCodec /\ [][NextCodec]_vars

\* C18 as stated: the input end of the handle is upstream of the codec, a
\* chunk written there is accepted, closing it is accepted and reaches the
\* codec, and the tracking stages of the handle are downstream of the codec
C18_CodecAdopted ==
  (input # <<>> \/ inputClosed) =>
    /\ handleWritable <= CodecStage
    /\ rejected = 0
    /\ \A s \in Stages :
         Kind(s) \in {"collect", "trackDone", "trackErrors"} => s > CodecStage

(***************************************************************************)
(* linesTransform: the splitting stage, fed one chunk at a time.  Strings  *)
(* are sequences of characters.                                            *)
(***************************************************************************)

Chars == {"a", " ", "\n"}
Whitespace == {" ", "\n"}
Separators == { <<"\n">>, <<" ", "\n">>, <<"a", "a">>, <<>> }
Strings(n) == UNION { [1 .. k -> Chars] : k \in 0 .. n }

\* sep occurs in s at index i
OccursAt(s, sep, i) ==
  /\ i + Len(sep) - 1 <= Len(s)
  /\ \A j \in 1 .. Len(sep) : s[i + j - 1] = sep[j]

\* String.prototype.indexOf, 1-based, 0 when absent
IndexOf(s, sep) ==
  LET hits == { i \in 1 .. Len(s) : OccursAt(s, sep, i) }
  IN IF hits = {} THEN 0 ELSE CHOOSE i \in hits : \A j \in hits : i <= j

\* String.prototype.split(sep)
RECURSIVE JsSplit(_, _)
JsSplit(s, sep) ==
  IF sep = <<>> THEN [i \in 1 .. Len(s) |-> <<s[i]>>]
  ELSE LET i == IndexOf(s, sep)
       IN IF i = 0 THEN <<s>>
          ELSE <<SubSeq(s, 1, i - 1)>>
                 \o JsSplit(SubSeq(s, i + Len(sep), Len(s)), sep)

\* String.prototype.trim
RECURSIVE JsTrim(_)
JsTrim(s) ==
  IF s = <<>> THEN s
  ELSE IF s[1] \in Whitespace THEN JsTrim(Tail(s))
  ELSE IF s[Len(s)] \in Whitespace THEN JsTrim(SubSeq(s, 1, Len(s) - 1))
  ELSE s

\* the leftover fragment is not carried over
PopDropsLeftover(parts) == <<>>

\* parts.pop() || ''
PopOrEmpty(parts) == IF parts = <<>> THEN <<>> ELSE parts[Len(parts)]
\* what parts.pop() leaves in parts
Popped(parts) == IF parts = <<>> THEN <<>> ELSE SubSeq(parts, 1, Len(parts) - 1)

NonEmpty(line) == Len(line) > 0

\* the transform of the splitting stage: [{ buffer }, lines]
LinesTransformFn(buf, chunk, sep, tr, skip) ==
  LET combined == buf \o chunk
      parts == JsSplit(combined, sep)
      l1 == Popped(parts)
      l2 == IF tr THEN [i \in 1 .. Len(l1) |-> JsTrim(l1[i])] ELSE l1
      l3 == IF skip THEN SelectSeq(l2, NonEmpty) ELSE l2
  IN <<PopOrEmpty(parts), l3>>

\* an empty leftover is emitted as a last line too
LinesOnFlushKeepsEmpty(buf, tr, skip) ==
  LET line == IF tr THEN JsTrim(buf) ELSE buf
  IN IF skip /\ Len(line) = 0 THEN <<>> ELSE <<line>>

\* onFlush of the splitting stage: the lines it returns, none for null
LinesOnFlush(buf, tr, skip) ==
  IF buf # <<>>
    THEN LET line == IF tr THEN JsTrim(buf) ELSE buf
         IN IF skip /\ Len(line) = 0 THEN <<>> ELSE <<line>>
    ELSE <<>>

\* const { separator = '\n', trim = false, skipEmpty = false } = options
OptionNames == {"separator", "trim", "skipEmpty"}
DefaultSeparator == <<"\n">>
DefaultTrim == FALSE
DefaultSkipEmpty == FALSE

\* the array returned by a stateful transform or onFlush goes to
\* controller.enqueue as it is: the chunks enqueued for it
StatefulEnqueue(output) == <<output>>

\* the stage chained after the splitting stage: (state, lines) => [state, lines]
FlattenFn(held, ls) == <<held, ls>>

\* the chunks reaching the output end for one array of the splitting stage
LinesEmit(ls) == StatefulEnqueue(FlattenFn(<<>>, ls)[2])

LinesInit ==
  /\ text \in Strings(MaxLen)
  /\ given \in SUBSET OptionNames
  /\ separator \in (IF "separator" \in given THEN Separators
                                              ELSE {DefaultSeparator})
  /\ trim \in (IF "trim" \in given THEN BOOLEAN ELSE {DefaultTrim})
  /\ skipEmpty \in (IF "skipEmpty" \in given THEN BOOLEAN
                                              ELSE {DefaultSkipEmpty})
  /\ pos = 0
  /\ cuts = {}
  /\ buffer = <<>>
  /\ lines = <<>>
  /\ emissions = <<>>
  /\ phase = "open"

\* the pipeline is not in use while the splitting stage is driven directly
PipeIdle ==
  /\ stages = <<"identity">>
  /\ failStage = 0
  /\ failOn = 0
  /\ st = [s \in {1} |-> NewStream]
  /\ input = <<>>
  /\ inputClosed = FALSE
  /\ out = <<>>
  /\ state = createState
  /\ doneCallbacks = <<>>
  /\ errorCallbacks = <<>>
  /\ doneLog = <<>>
  /\ errLog = <<>>
  /\ handlerCalls = 0
  /\ failed = 0
  /\ regAtClose = 0
  /\ emittedAtDone = -1
  /\ handleWritable = 1
  /\ rejected = 0
  /\ BuilderIdle

\* the next k characters arrive as one chunk; an empty chunk is fed only as
\* the first one
LinesFeed(k) ==
  /\ phase = "open"
  /\ pos + k <= Len(text)
  /\ k > 0 \/ cuts = {}
  /\ LET chunk == SubSeq(text, pos + 1, pos + k)
         res == LinesTransformFn(buffer, chunk, separator, trim, skipEmpty)
     IN /\ buffer' = res[1]
        /\ lines' = lines \o res[2]
        /\ emissions' = emissions \o LinesEmit(res[2])
  /\ pos' = pos + k
  /\ cuts' = cuts \cup {pos + k}
  /\ UNCHANGED <<pipeVars, jsonVars, text, separator, trim, skipEmpty, phase,
                 given>>

\* the input ends: flush runs onFlush on the held state
LinesFlush ==
  /\ phase = "open"
  /\ pos = Len(text)
  /\ LET final == LinesOnFlush(buffer, trim, skipEmpty)
     IN /\ lines' = lines \o final
        /\ emissions' = IF final = <<>> THEN emissions
                        ELSE emissions \o LinesEmit(final)
  /\ phase' = "flushed"
  /\ UNCHANGED <<pipeVars, jsonVars, text, separator, trim, skipEmpty, pos,
                 cuts, buffer, given>>

LinesNext ==
  \/ \E k \in 0 .. MaxLen : LinesFeed(k)
  \/ LinesFlush

InitLines == PipeIdle /\ LinesInit /\ JsonIdle

SpecLines == InitLines /\ [][LinesNext]_vars

\* the whole string fed as one chunk, then flushed
WholeRun ==
  LET res == LinesTransformFn(<<>>, text, separator, trim, skipEmpty)
  IN res[2] \o LinesOnFlush(res[1], trim, skipEmpty)

\* C3: whatever the chunk boundaries, separator, trim and skipEmpty, the
\* lines emitted per chunk followed by the flush output are the lines of
\* the whole string fed as one chunk and flushed: nothing lost, nothing twice
C3_ChunkingInvariant == phase = "flushed" => lines = WholeRun

\* a two-character separator was cut in the middle by a chunk boundary
C3_Witness ==
  /\ phase = "flushed"
  /\ separator = <<" ", "\n">>
  /\ text = <<"a", " ", "\n", "a">>
  /\ cuts = {2, 4}
  /\ lines = << <<"a">>, <<"a">> >>

\* C14 as stated: every chunk reaching the output end of linesTransform is
\* one line: an array of several lines is forwarded element by element and
\* an empty array forwards nothing, so there is one chunk per emitted line
C14_Flattened ==
  phase # "idle" =>
    /\ Len(emissions) = Len(lines)
    /\ \A i \in 1 .. Len(emissions) : emissions[i] = <<lines[i]>>

\* ---- getState() of the handle linesTransform returns ----

\* a state object, as the set of its fields with their values
BufferState(buf) == {<<"buffer", buf>>}
EmptyObject == {}
Undefined == {<<"undefined", <<>>>>}

\* the operators linesTransform chains on createTransform(), the tracking
\* options left at their defaults
LinesChain == <<"identity", "stateful", "stateful">>

\* this.internalState after the calls of chain: the getState of the stage
\* of the last stateful() call (0: never assigned)
InternalState(chain) ==
  LET sf == { i \in 1 .. Len(chain) : chain[i] = "stateful" }
  IN IF sf = {} THEN 0 ELSE CHOOSE i \in sf : \A j \in sf : j <= i

\* the closure variable state of stage i of LinesChain: the splitting stage
\* holds { buffer }, the stage chained after it the {} it started with,
\* which its transform hands back unchanged
LinesHeld(i) ==
  IF i = 2 THEN BufferState(buffer) ELSE FlattenFn(EmptyObject, <<>>)[1]

\* getState() on the built handle
LinesGetState ==
  IF InternalState(LinesChain) = 0 THEN Undefined
  ELSE LinesHeld(InternalState(LinesChain))

\* C22 as stated, for the line splitter: getState() on its handle returns
\* the leftover-buffer state the splitting stage holds
C22_GetStateIsLeftover ==
  phase # "idle" => LinesGetState = BufferState(buffer)

\* C23 as stated, for the line splitter: once the flush has run the
\* splitting stage holds an empty buffer
C23_DrainedByFlush == phase = "flushed" => buffer = <<>>

\* the lines of s: every fragment ended by a line feed, then what follows
\* the last line feed unless that is empty
RECURSIVE LinesOf(_)
LinesOf(s) ==
  LET nl == { i \in 1 .. Len(s) : s[i] = "\n" }
  IN IF nl = {} THEN (IF s = <<>> THEN <<>> ELSE <<s>>)
     ELSE LET i == CHOOSE j \in nl : \A m \in nl : j <= m
          IN <<SubSeq(s, 1, i - 1)>> \o LinesOf(SubSeq(s, i + 1, Len(s)))

JsonChars == {"1", "x", " ", "\n"}
JsonStrings(n) == UNION { [1 .. k -> JsonChars] : k \in 0 .. n }

\* three lines: a record, a malformed line, another record
JsonExample == <<"1", "\n", "x", "\n", "1", "1", "\n">>

\* the JSON literal null, and the value null
NullLiteral == <<"n", "u", "l", "l">>
JsNull == <<"null">>

\* JSON.parse(s) does not throw: a number or the literal null between
\* optional white space
JsonValid(s) ==
  LET t == JsTrim(s)
  IN \/ t # <<>> /\ \A i \in 1 .. Len(t) : t[i] = "1"
     \/ t = NullLiteral

\* the value JSON.parse(s) returns
JsonParse(s) == IF JsTrim(s) = NullLiteral THEN JsNull ELSE JsTrim(s)

\* const { skipInvalid = false, trim = true, skipEmpty = true } = options
DefaultSkipInvalid == FALSE
DefaultJsonTrim == TRUE
DefaultJsonSkipEmpty == TRUE

\* the transform of the splitting stage: [{ buffer }, lines]
JsonLinesSplit(buf, chunk) ==
  LET combined == buf \o chunk
      ls == JsSplit(combined, <<"\n">>)
  IN <<PopOrEmpty(ls), Popped(ls)>>

\* onFlush of the splitting stage: state.buffer ? [state.buffer] : null
JsonLinesOnFlush(buf) == IF buf # <<>> THEN <<buf>> ELSE <<>>

\* the failure is thrown again whatever skipInvalid says
RethrowsAlways(skip) == TRUE
\* the failure is swallowed whatever skipInvalid says
RethrowsNever(skip) == FALSE

\* catch (error) { if (!skipInvalid) throw error }
Rethrows(skip) == ~skip

\* the loop of the map stage over ls[i..]: the records pushed so far, the
\* lines parsed so far, and whether a failure was thrown out of the loop
RECURSIVE JsonLinesMap(_, _, _, _)
JsonLinesMap(ls, i, processed, tried) ==
  IF i > Len(ls)
    THEN [thrown |-> FALSE, processed |-> processed, tried |-> tried]
  ELSE LET trimmedLine == IF trim THEN JsTrim(ls[i]) ELSE ls[i]
       IN IF skipEmpty /\ Len(trimmedLine) = 0
            THEN JsonLinesMap(ls, i + 1, processed, tried)
          ELSE IF JsonValid(trimmedLine)
            THEN JsonLinesMap(ls, i + 1,
                              Append(processed, JsonParse(trimmedLine)),
                              Append(tried, trimmedLine))
          ELSE IF Rethrows(skipInvalid)
            THEN [thrown |-> TRUE, processed |-> processed,
                  tried |-> Append(tried, trimmedLine)]
          ELSE JsonLinesMap(ls, i + 1, processed, Append(tried, trimmedLine))

JsonLinesInit ==
  /\ text \in JsonStrings(MaxLen) \cup {JsonExample}
  /\ given \in SUBSET {"skipInvalid"}
  /\ skipInvalid \in (IF "skipInvalid" \in given THEN BOOLEAN
                                                  ELSE {DefaultSkipInvalid})
  /\ trim = DefaultJsonTrim
  /\ skipEmpty = DefaultJsonSkipEmpty
  /\ separator = <<"\n">>
  /\ pos = 0
  /\ cuts = {}
  /\ buffer = <<>>
  /\ lines = <<>>
  /\ emissions = <<>>
  /\ attempts = <<>>
  /\ raised = 0
  /\ phase = "open"

\* the records pushed before the malformed line are enqueued all the same
JsonLinesParsePartial(ls) ==
  LET res == JsonLinesMap(ls, 1, <<>>, <<>>)
  IN /\ lines' = lines \o ls
     /\ attempts' = attempts \o res.tried
     /\ emissions' = Append(emissions, res.processed)
     /\ raised' = IF res.thrown THEN raised + 1 ELSE raised

\* the array ls of the splitting stage reaches the map stage: its result
\* is enqueued as one chunk, a failure thrown out of it errors the pipeline
JsonLinesParse(ls) ==
  LET res == JsonLinesMap(ls, 1, <<>>, <<>>)
  IN /\ lines' = lines \o ls
     /\ attempts' = attempts \o res.tried
     /\ IF res.thrown
          THEN /\ raised' = raised + 1
               /\ UNCHANGED emissions
          ELSE /\ emissions' = Append(emissions, res.processed)
               /\ UNCHANGED raised

\* the next k characters arrive as one chunk; an empty chunk is fed only as
\* the first one
JsonLinesFeed(k) ==
  /\ phase = "open"
  /\ pos + k <= Len(text)
  /\ k > 0 \/ cuts = {}
  /\ LET res == JsonLinesSplit(buffer, SubSeq(text, pos + 1, pos + k))
     IN /\ buffer' = res[1]
        /\ JsonLinesParse(res[2])
        /\ phase' = IF raised' > raised THEN "failed" ELSE phase
  /\ pos' = pos + k
  /\ cuts' = cuts \cup {pos + k}
  /\ UNCHANGED <<pipeVars, text, separator, trim, skipEmpty, given, skipInvalid>>

\* the input ends: the leftover, if any, reaches the map stage as one array
JsonLinesFlush ==
  /\ phase = "open"
  /\ pos = Len(text)
  /\ LET final == JsonLinesOnFlush(buffer)
     IN IF final = <<>>
          THEN /\ phase' = "flushed"
               /\ UNCHANGED <<lines, attempts, raised, emissions>>
          ELSE /\ JsonLinesParse(final)
               /\ phase' = IF raised' > raised THEN "failed" ELSE "flushed"
  /\ UNCHANGED <<pipeVars, text, separator, trim, skipEmpty, given, skipInvalid,
                 pos, cuts, buffer>>

JsonLinesNext ==
  \/ \E k \in 0 .. Len(text) : JsonLinesFeed(k)
  \/ JsonLinesFlush

InitJsonLines == PipeIdle /\ JsonLinesInit

SpecJsonLines == InitJsonLines /\ [][JsonLinesNext]_vars

\* the arrays of q joined into one sequence
RECURSIVE Concat(_)
Concat(q) == IF q = <<>> THEN <<>> ELSE Head(q) \o Concat(Tail(q))

\* the lines of the whole text that are not blank, trimmed: the lines a
\* parse is due on
JsonCandidates ==
  LET ls == JsSplit(text, <<"\n">>)
      trimmed == [i \in 1 .. Len(ls) |-> JsTrim(ls[i])]
  IN SelectSeq(trimmed, NonEmpty)

\* the records of the lines of q that are valid JSON
RecordsOf(q) ==
  LET valid == SelectSeq(q, JsonValid)
  IN [i \in 1 .. Len(valid) |-> JsonParse(valid[i])]

\* how many of the lines a parse is due on come up to the first malformed
\* one, that one included; all of them when none is malformed
UpToFirstMalformed ==
  LET bad == { i \in 1 .. Len(JsonCandidates) : ~JsonValid(JsonCandidates[i]) }
  IN IF bad = {} THEN Len(JsonCandidates)
     ELSE CHOOSE i \in bad : \A j \in bad : i <= j

HasMalformed == \E i \in 1 .. Len(JsonCandidates) : ~JsonValid(JsonCandidates[i])

\* C16: with skipInvalid true no parse failure is ever thrown and the
\* pipeline never fails; whatever the text and the chunk boundaries, once
\* the input has ended the records emitted are the records of the lines
\* that are valid JSON, in line order, and every non-blank line was parsed
C16_SkipInvalid ==
  skipInvalid =>
    /\ raised = 0
    /\ phase # "failed"
    /\ IsPrefix(Concat(emissions), RecordsOf(JsonCandidates))
    /\ phase = "flushed" =>
         /\ Concat(emissions) = RecordsOf(JsonCandidates)
         /\ attempts = JsonCandidates

\* the example text fed in three chunks yields the two records
C16_Witness ==
  /\ skipInvalid
  /\ phase = "flushed"
  /\ text = JsonExample
  /\ cuts = {3, 5, 7}
  /\ Concat(emissions) = << <<"1">>, <<"1", "1">> >>
  /\ Len(attempts) = 3

\* C17: with skipInvalid false at most one parse failure is thrown; the
\* lines parsed are those up to the first malformed one and no later one;
\* the records emitted are records of lines before it; a run over a text
\* with a malformed line ends failed, with exactly one failure thrown and
\* the malformed line the last one parsed
C17_FailOnMalformed ==
  (~skipInvalid /\ phase # "idle") =>
    /\ raised <= 1
    /\ raised = 1 <=> phase = "failed"
    /\ IsPrefix(attempts, SubSeq(JsonCandidates, 1, UpToFirstMalformed))
    /\ IsPrefix(Concat(emissions),
                RecordsOf(SubSeq(JsonCandidates, 1, UpToFirstMalformed)))
    /\ phase = "flushed" => ~HasMalformed
    /\ phase = "failed" =>
         /\ HasMalformed
         /\ attempts = SubSeq(JsonCandidates, 1, UpToFirstMalformed)

\* the example text: the first record was emitted, the second line failed,
\* the third line was never parsed
C17_Witness ==
  /\ ~skipInvalid
  /\ phase = "failed"
  /\ text = JsonExample
  /\ cuts = {2, 7}
  /\ emissions = << << <<"1">> >> >>
  /\ attempts = << <<"1">>, <<"x">> >>
  /\ raised = 1

\* the lines of q a parse is due on: trimmed, the blank ones left out
Candidates(q) ==
  SelectSeq([i \in 1 .. Len(q) |-> JsTrim(q[i])], NonEmpty)

\* C27: with skipInvalid false, a step in which the complete lines of a
\* chunk (or the last line, at flush) hold a malformed line emits nothing,
\* not even the records of the valid lines before it, and fails the run;
\* a step whose lines all parse adds their records; what was emitted for
\* earlier chunks is never changed
C27_BatchAtomic ==
  [][LET new == SubSeq(lines', Len(lines) + 1, Len(lines'))
         due == Candidates(new)
     IN ~skipInvalid =>
          /\ IsPrefix(emissions, emissions')
          /\ IF \E i \in 1 .. Len(due) : ~JsonValid(due[i])
               THEN /\ emissions' = emissions
                    /\ raised' = raised + 1
                    /\ phase' = "failed"
               ELSE /\ Concat(emissions') = Concat(emissions) \o RecordsOf(due)
                    /\ raised' = raised]_vars

\* the example text fed as one chunk: the first line is a valid record, the
\* second is malformed, and nothing was emitted
C27_Witness ==
  /\ ~skipInvalid
  /\ phase = "failed"
  /\ text = JsonExample
  /\ cuts = {7}
  /\ attempts = << <<"1">>, <<"x">> >>
  /\ emissions = <<>>

(***************************************************************************)
(* jsonTransform: a map stage parsing every chunk and, with skipInvalid, a *)
(* filter stage after it, fed one chunk at a time.                         *)
(***************************************************************************)

\* the chunks a producer writes: numbers, the literal null, malformed text
JsonDocs ==
  { <<"1">>, <<" ", "1">>, <<"1", "1">>, NullLiteral, <<"x">>, <<>> }

\* the function of the map stage: the value returned, or the failure thrown
JsonMapFn(chunk, skip) ==
  IF JsonValid(chunk) THEN [thrown |-> FALSE, value |-> JsonParse(chunk)]
  ELSE IF skip THEN [thrown |-> FALSE, value |-> JsNull]
  ELSE [thrown |-> TRUE, value |-> JsNull]

\* the predicate of the filter stage: (obj) => obj !== null
JsonFilterFn(obj) == obj # JsNull

JsonInit ==
  /\ given \in SUBSET {"skipInvalid"}
  /\ skipInvalid \in (IF "skipInvalid" \in given THEN BOOLEAN
                                                  ELSE {DefaultSkipInvalid})
  /\ text = <<>>
  /\ separator = <<>>
  /\ trim = FALSE
  /\ skipEmpty = FALSE
  /\ pos = 0
  /\ cuts = {}
  /\ buffer = <<>>
  /\ lines = <<>>
  /\ emissions = <<>>
  /\ attempts = <<>>
  /\ raised = 0
  /\ phase = "open"

\* a chunk is written and goes through the map stage and, when skipInvalid
\* chained it, the filter stage
JsonWrite(chunk) ==
  /\ phase = "open"
  /\ Len(attempts) < MaxInput
  /\ attempts' = Append(attempts, chunk)
  /\ LET res == JsonMapFn(chunk, skipInvalid)
     IN IF res.thrown
          THEN /\ raised' = raised + 1
               /\ phase' = "failed"
               /\ UNCHANGED emissions
          ELSE /\ emissions' = IF skipInvalid /\ ~JsonFilterFn(res.value)
                                 THEN emissions
                                 ELSE Append(emissions, res.value)
               /\ UNCHANGED <<raised, phase>>
  /\ UNCHANGED <<pipeVars, text, separator, trim, skipEmpty, pos, cuts, buffer,
                 lines, given, skipInvalid>>

\* the input ends; neither stage has a flush
JsonClose ==
  /\ phase = "open"
  /\ phase' = "flushed"
  /\ UNCHANGED <<pipeVars, text, separator, trim, skipEmpty, pos, cuts, buffer,
                 lines, given, emissions, skipInvalid, attempts, raised>>

JsonNext ==
  \/ \E chunk \in JsonDocs : JsonWrite(chunk)
  \/ JsonClose

InitJson == PipeIdle /\ JsonInit

SpecJson == InitJson /\ [][JsonNext]_vars

\* the values of the chunks of q that are valid JSON, in order
RECURSIVE ValidValues(_)
ValidValues(q) ==
  IF q = <<>> THEN <<>>
  ELSE (IF JsonValid(Head(q)) THEN <<JsonParse(Head(q))>> ELSE <<>>)
       \o ValidValues(Tail(q))

\* C24 as stated: with skipInvalid the output is the parsed value of every
\* chunk that is valid JSON, the literal null included, in input order, a
\* chunk that is not valid JSON adds nothing, and the pipeline never fails
C24_SkipPolicy ==
  (skipInvalid /\ phase # "idle") =>
    /\ emissions = ValidValues(attempts)
    /\ raised = 0
    /\ phase # "failed"

(***************************************************************************)
(* TransformBuilder objects: createTransform(), the operator methods and   *)
(* build(), followed by object identity.  A Builder is its index in        *)
(* builders; its surface (this.state) is created by its constructor.       *)
(***************************************************************************)

MaxBuilders == 2
MaxOps == 3

BuilderOps == {"map", "stateful", "collect", "trackDone"}

\* the operator is chained twice
ExtendTwice(composable, op) == Append(Append(composable, op), op)

\* this.composable = transformStreamOps.op(...)(this.composable)
Extend(composable, op) == Append(composable, op)

\* return this
Returned(b) == b

\* the operator calls made so far, over all builders
RECURSIVE ChainedOps(_)
ChainedOps(n) ==
  IF n = 0 THEN 0 ELSE ChainedOps(n - 1) + Len(builders[n].composable) - 1

\* what the caller of a Builder leaves alone
notBuilderVars ==
  <<stages, failStage, failOn, st, input, inputClosed, out, state,
    doneCallbacks, errorCallbacks, doneLog, errLog, handlerCalls, failed,
    regAtClose, emittedAtDone, codecVars, linesVars, jsonVars>>

\* createTransform(): new TransformBuilder() on an identity stream, with
\* a surface of its own
CreateTransform ==
  /\ Len(builders) < MaxBuilders
  /\ builders' = Append(builders, [composable |-> <<"identity">>,
                                   state |-> Len(builders) + 1])
  /\ UNCHANGED <<notBuilderVars, lastCall, lastBuilt>>

\* b.op(...): an operator method of the Builder b
Chain(b, op) ==
  /\ ChainedOps(Len(builders)) < MaxOps
  /\ builders' = [builders EXCEPT ![b].composable = Extend(@, op)]
  /\ lastCall' = [receiver |-> b, returned |-> Returned(b), op |-> op,
                  before |-> builders[b].composable,
                  surface |-> builders[b].state]
  /\ UNCHANGED <<notBuilderVars, lastBuilt>>

\* b.build()
Build(b) ==
  /\ lastBuilt' = [of |-> b, state |-> builders[b].state,
                   stages |-> builders[b].composable]
  /\ UNCHANGED <<notBuilderVars, builders, lastCall>>

NextBuilder ==
  \/ CreateTransform
  \/ \E b \in 1 .. Len(builders), op \in BuilderOps : Chain(b, op)
  \/ \E b \in 1 .. Len(builders) : Build(b)

InitBuilder == PipeIdle /\ LinesIdle /\ JsonIdle

SpecBuilder == InitBuilder /\ [][NextBuilder]_vars

====
